---- MODULE Spec2Model ----
(***************************************************************************)
(* Model of finetune.py: one rank's process running main -> train ->       *)
(* train_epoch.  The command line, the rank of the process and the state   *)
(* of the checkpoint path are chosen in Init; every statement group of the *)
(* script that a claim distinguishes is one action, ordered by pc.         *)
(* Library calls (argparse, peft, the optimizer, tqdm, the with statement) *)
(* are modelled by their documented effect on the state below.             *)
(***************************************************************************)
EXTENDS Integers, Sequences, FiniteSets, TLC

\* ---- bounds ----
MaxEpoch == 2        \* largest --epoch value
NegEpochs == 1       \* how many negative --epoch values are tried
MaxData == 4         \* largest number of samples the loader draws from
MaxBatchSize == 2    \* largest --batch value
WorldSize == 2       \* number of ranks
MaxLoss == 2         \* loss values are 1..MaxLoss

\* ---- argparse declaration of --plugin (main) ----
Choices == {"torch_ddp", "gemini", "low_level_zero", "torch_fsdp"}
DefaultPlugin == "torch_ddp"
\* values given on the command line: the flag left out, each choice, and a
\* value outside the choices
PluginArgv == Choices \cup {"omitted", "other"}

Params == {"base", "lora"}
StepOrder == <<"forward", "backward", "opt_step", "zero_grad", "lr_step", "postfix">>
InEpoch == {"fetch", "forward", "backward", "opt_step", "zero_grad", "lr_step", "postfix"}
Terminal == {"rejected", "assert_failed", "aborted", "done"}

VARIABLES
  pc,            \* position of the process in the script
  argv,          \* the command line: [plugin, epoch, batch_size]
  rank,          \* rank of this process; rank 0 is the master
  dataLen,       \* number of samples the data loader draws from on this rank
  ckptExists,    \* os.path.exists(args.ckpt)
  existedAtCheck,\* value of os.path.exists(args.ckpt) seen by the assert in main
  args,          \* parsed arguments (NoArgs before parse_args)
  plugin,        \* the plugin object built by train ("unset" before, "None" for None)
  dataloaderBy,  \* who built the data loader: "plugin" or "DataLoader"
  lenDataloader, \* len(dataloader)
  total_steps,   \* num_training_steps given to the schedule
  epoch,         \* loop variable of train's for loop
  batchI,        \* number of batches the current pbar has yielded and finished
  pbarDisabled,  \* <<disable>> of the tqdm bar of the current epoch, <<>> before the first
  loss,          \* loss of the current batch: <<epoch, batch, value>>
  reported,      \* last value given to pbar.set_postfix
  reports,       \* number of set_postfix calls
  batchLog,      \* steps executed so far for the current batch
  optSteps,      \* number of optimizer.step calls
  lrSteps,       \* number of lr_sched.step calls
  requires_grad, \* per parameter group: trainable
  grad,          \* per parameter group: number of batches summed into .grad
  applied,       \* number of batches in the gradient used by the last optimizer.step
  weights,       \* per parameter group: number of updates applied
  wrapped,       \* LoRAWapper has returned
  inScope,       \* inside the MemoryTracker with block
  entered,       \* number of MemoryTracker __enter__ calls
  exited,        \* number of MemoryTracker __exit__ calls
  stepsInScope,  \* training steps and saves executed while inScope
  stepsOutScope, \* training steps and saves executed while not inScope
  saves          \* number of save_pretrained calls

vars == <<pc, argv, rank, dataLen, ckptExists, existedAtCheck, args, plugin,
          dataloaderBy, lenDataloader, total_steps, epoch, batchI, pbarDisabled,
          loss, reported, reports, batchLog, optSteps, lrSteps, requires_grad,
          grad, applied, weights, wrapped, inScope, entered, exited,
          stepsInScope, stepsOutScope, saves>>

NoArgs == [plugin |-> "unparsed", epoch |-> 0, batch_size |-> 0]
NoLoss == <<0, 0, 0>>

Max(a, b) == IF a >= b THEN a ELSE b

\* coord.is_master()
is_master(r) == r = 0

Init ==
  /\ pc = "main"
  /\ argv \in [plugin : PluginArgv, epoch : (0 - NegEpochs)..MaxEpoch, batch_size : 1..MaxBatchSize]
  /\ rank \in 0..(WorldSize - 1)
  /\ dataLen \in 0..MaxData
  /\ ckptExists \in BOOLEAN
  /\ existedAtCheck = FALSE
  /\ args = NoArgs
  /\ plugin = "unset"
  /\ dataloaderBy = "unset"
  /\ lenDataloader = 0
  /\ total_steps = 0
  /\ epoch = 0
  /\ batchI = 0
  /\ pbarDisabled = <<>>
  /\ loss = NoLoss
  /\ reported = NoLoss
  /\ reports = 0
  /\ batchLog = <<>>
  /\ optSteps = 0
  /\ lrSteps = 0
  /\ requires_grad = [p \in Params |-> p = "base"]
  /\ grad = [p \in Params |-> 0]
  /\ applied = 0
  /\ weights = [p \in Params |-> 0]
  /\ wrapped = FALSE
  /\ inScope = FALSE
  /\ entered = 0
  /\ exited = 0
  /\ stepsInScope = 0
  /\ stepsOutScope = 0
  /\ saves = 0

\* ---- main: argparse and the checkpoint assertion ----

PluginAcceptedAny(p) == TRUE
\* choices= of --plugin: a value outside the choices makes parse_args exit;
\* the default is taken when the flag is left out
PluginAccepted(p) == p = "omitted" \/ p \in Choices

ParseArgs(av) ==
  [plugin |-> IF av.plugin = "omitted" THEN DefaultPlugin ELSE av.plugin,
   epoch |-> av.epoch,
   batch_size |-> av.batch_size]

CkptCheckSkipped(exists) == TRUE
\* assert(not os.path.exists(args.ckpt))
CkptCheck(exists) == ~exists

\* ---- train: backend selection ----

\* the if/elif chain on args.plugin
SelectPlugin(name) ==
  IF name = "torch_ddp" THEN "TorchDDPPlugin"
  ELSE IF name = "gemini" THEN "GeminiPlugin"
  ELSE IF name = "low_level_zero" THEN "LowLevelZeroPlugin"
  ELSE IF name = "torch_fsdp" THEN "TorchFSDPPlugin"
  ELSE "None"

\* if plugin: plugin.prepare_dataloader(...) else: DataLoader(...)
DataloaderBuilder(pl) == IF pl # "None" THEN "plugin" ELSE "DataLoader"

\* len of a loader with batch_size=b and drop_last=True over n samples
LenDataloader(n, b) == n \div b

TotalStepsOneEpoch(len, nepoch) == len
\* total_steps = len(dataloader) * args.epoch
TotalSteps(len, nepoch) == len * nepoch

LoRAWapperAllTrainable(rg) == [p \in Params |-> TRUE]
\* get_peft_model: the adapter matrices are added as trainable parameters and
\* every parameter of the base model gets requires_grad = False
LoRAWapper(rg) == [p \in Params |-> p = "lora"]

\* HybridAdam(lora_model.parameters(), ...): every parameter is handed over
OptimizerParams == Params

\* ---- train_epoch: the per-batch steps ----

TqdmDisableOnMaster(master) == master
\* disable=not coord.is_master()
TqdmDisable(master) == ~master

\* booster.backward: adds this batch's gradient to .grad of trainable parameters
BackwardGrad(g, rg) == [p \in Params |-> IF rg[p] THEN g[p] + 1 ELSE g[p]]

\* optimizer.step: a parameter of the optimizer that has a gradient is updated
StepWeights(w, g) ==
  [p \in Params |-> IF p \in OptimizerParams /\ g[p] > 0 THEN w[p] + 1 ELSE w[p]]

ZeroGradKeep(g) == g
\* optimizer.zero_grad
ZeroGrad(g) == [p \in Params |-> 0]

ShouldSaveAlways(master) == TRUE
\* if coordinator.is_master():
ShouldSave(master) == master

\* a training step or a save ran: count it inside or outside the scope
CountStep ==
  /\ stepsInScope' = IF inScope THEN stepsInScope + 1 ELSE stepsInScope
  /\ stepsOutScope' = IF inScope THEN stepsOutScope ELSE stepsOutScope + 1

envVars == <<argv, rank, dataLen>>
setupVars == <<plugin, dataloaderBy, lenDataloader, total_steps, requires_grad, wrapped>>
scopeVars == <<inScope, entered, exited>>
countVars == <<stepsInScope, stepsOutScope>>
loopVars == <<epoch, batchI, pbarDisabled>>
batchVars == <<loss, reported, reports, batchLog, optSteps, lrSteps, grad, applied, weights>>

\* main(): parse_args, the assertion, the call of train
Main ==
  /\ pc = "main"
  /\ IF ~PluginAccepted(argv.plugin)
       THEN /\ pc' = "rejected"
            /\ UNCHANGED <<args, existedAtCheck>>
       ELSE /\ args' = ParseArgs(argv)
            /\ existedAtCheck' = ckptExists
            /\ pc' = IF CkptCheck(ckptExists) THEN "train" ELSE "assert_failed"
  /\ UNCHANGED <<envVars, ckptExists, setupVars, scopeVars, countVars, loopVars, batchVars, saves>>

\* train(): everything from launch_from_torch to booster.boost
TrainSetup ==
  /\ pc = "train"
  /\ plugin' = SelectPlugin(args.plugin)
  /\ requires_grad' = LoRAWapper(requires_grad)
  /\ wrapped' = TRUE
  /\ dataloaderBy' = DataloaderBuilder(plugin')
  /\ lenDataloader' = LenDataloader(dataLen, args.batch_size)
  /\ total_steps' = TotalSteps(lenDataloader', args.epoch)
  /\ pc' = "enter"
  /\ UNCHANGED <<envVars, ckptExists, existedAtCheck, args, scopeVars, countVars, loopVars, batchVars, saves>>

\* with utils.MemoryTracker(...): __enter__
EnterScope ==
  /\ pc = "enter"
  /\ inScope' = TRUE
  /\ entered' = entered + 1
  /\ pc' = "epoch_loop"
  /\ UNCHANGED <<envVars, ckptExists, existedAtCheck, args, setupVars, exited, countVars, loopVars, batchVars, saves>>

\* for epoch in range(args.epoch): call train_epoch, which opens the tqdm bar
EpochLoop ==
  /\ pc = "epoch_loop"
  /\ IF epoch < args.epoch
       THEN /\ pbarDisabled' = <<TqdmDisable(is_master(rank))>>
            /\ batchI' = 0
            /\ pc' = "fetch"
       ELSE /\ pc' = "save"
            /\ UNCHANGED <<pbarDisabled, batchI>>
  /\ UNCHANGED <<envVars, ckptExists, existedAtCheck, args, setupVars, scopeVars, countVars, epoch, batchVars, saves>>

\* for batch in pbar: the next batch, or the end of train_epoch
NextBatch ==
  /\ pc = "fetch"
  /\ IF batchI < lenDataloader
       THEN /\ pc' = "forward"
            /\ UNCHANGED epoch
       ELSE /\ pc' = "epoch_loop"
            /\ epoch' = epoch + 1
  /\ UNCHANGED <<envVars, ckptExists, existedAtCheck, args, setupVars, scopeVars, countVars, batchI, pbarDisabled, batchVars, saves>>

ForwardSkipBackward ==
  /\ pc = "forward"
  /\ \E v \in 1..MaxLoss : loss' = <<epoch, batchI, v>>
  /\ batchLog' = <<"forward">>
  /\ CountStep
  /\ pc' = "opt_step"
  /\ UNCHANGED <<envVars, ckptExists, existedAtCheck, args, setupVars, scopeVars, loopVars, reported, reports, optSteps, lrSteps, grad, applied, weights, saves>>
\* outputs = model(**batch); loss = outputs.loss
Forward ==
  /\ pc = "forward"
  /\ \E v \in 1..MaxLoss : loss' = <<epoch, batchI, v>>
  /\ batchLog' = <<"forward">>
  /\ CountStep
  /\ pc' = "backward"
  /\ UNCHANGED <<envVars, ckptExists, existedAtCheck, args, setupVars, scopeVars, loopVars, reported, reports, optSteps, lrSteps, grad, applied, weights, saves>>

\* booster.backward(loss, optimizer)
Backward ==
  /\ pc = "backward"
  /\ grad' = BackwardGrad(grad, requires_grad)
  /\ batchLog' = Append(batchLog, "backward")
  /\ CountStep
  /\ pc' = "opt_step"
  /\ UNCHANGED <<envVars, ckptExists, existedAtCheck, args, setupVars, scopeVars, loopVars, loss, reported, reports, optSteps, lrSteps, applied, weights, saves>>

\* optimizer.step()
OptStep ==
  /\ pc = "opt_step"
  /\ weights' = StepWeights(weights, grad)
  /\ applied' = Max(grad["base"], grad["lora"])
  /\ optSteps' = optSteps + 1
  /\ batchLog' = Append(batchLog, "opt_step")
  /\ CountStep
  /\ pc' = "zero_grad"
  /\ UNCHANGED <<envVars, ckptExists, existedAtCheck, args, setupVars, scopeVars, loopVars, loss, reported, reports, lrSteps, grad, saves>>

\* optimizer.zero_grad()
ZeroGradStep ==
  /\ pc = "zero_grad"
  /\ grad' = ZeroGrad(grad)
  /\ batchLog' = Append(batchLog, "zero_grad")
  /\ CountStep
  /\ pc' = "lr_step"
  /\ UNCHANGED <<envVars, ckptExists, existedAtCheck, args, setupVars, scopeVars, loopVars, loss, reported, reports, optSteps, lrSteps, applied, weights, saves>>

\* lr_sched.step()
LrStep ==
  /\ pc = "lr_step"
  /\ lrSteps' = lrSteps + 1
  /\ batchLog' = Append(batchLog, "lr_step")
  /\ CountStep
  /\ pc' = "postfix"
  /\ UNCHANGED <<envVars, ckptExists, existedAtCheck, args, setupVars, scopeVars, loopVars, loss, reported, reports, optSteps, grad, applied, weights, saves>>

\* pbar.set_postfix({'loss': loss.item()}), the end of the loop body
SetPostfix ==
  /\ pc = "postfix"
  /\ reported' = loss
  /\ reports' = reports + 1
  /\ batchLog' = Append(batchLog, "postfix")
  /\ batchI' = batchI + 1
  /\ CountStep
  /\ pc' = "fetch"
  /\ UNCHANGED <<envVars, ckptExists, existedAtCheck, args, setupVars, scopeVars, epoch, pbarDisabled, loss, optSteps, lrSteps, grad, applied, weights, saves>>

\* if coordinator.is_master(): boost_model.unwrap().save_pretrained(args.ckpt)
Save ==
  /\ pc = "save"
  /\ IF ShouldSave(is_master(rank))
       THEN /\ saves' = saves + 1
            /\ ckptExists' = TRUE
            /\ CountStep
       ELSE UNCHANGED <<saves, ckptExists, countVars>>
  /\ pc' = "exit"
  /\ UNCHANGED <<envVars, existedAtCheck, args, setupVars, scopeVars, loopVars, batchVars>>

\* the end of the with block: __exit__, then train and main return
ExitScope ==
  /\ pc = "exit"
  /\ inScope' = FALSE
  /\ exited' = exited + 1
  /\ pc' = "done"
  /\ UNCHANGED <<envVars, ckptExists, existedAtCheck, args, setupVars, entered, countVars, loopVars, batchVars, saves>>

RaiseNoExit ==
  /\ pc \in {"train", "save"} \cup InEpoch
  /\ pc' = "aborted"
  /\ UNCHANGED <<envVars, ckptExists, existedAtCheck, args, setupVars, scopeVars, countVars, loopVars, batchVars, saves>>
\* the statement at pc raises: the exception leaves train; when it is raised
\* inside the with block the with statement calls __exit__ on the way out
Raise ==
  /\ pc \in {"train", "save"} \cup InEpoch
  /\ pc' = "aborted"
  /\ inScope' = FALSE
  /\ exited' = IF inScope THEN exited + 1 ELSE exited
  /\ UNCHANGED <<envVars, ckptExists, existedAtCheck, args, setupVars, entered, countVars, loopVars, batchVars, saves>>

Next ==
  \/ Main
  \/ TrainSetup
  \/ EnterScope
  \/ EpochLoop
  \/ NextBatch
  \/ Forward
  \/ Backward
  \/ OptStep
  \/ ZeroGradStep
  \/ LrStep
  \/ SetPostfix
  \/ Save
  \/ ExitScope
  \/ Raise

Spec == Init /\ [][Next]_vars

\* every statement of the script that can run eventually does
FairSpec == Spec /\ WF_vars(Next)

\* ---------------------------------------------------------------------
\* Properties
\* ---------------------------------------------------------------------

IsPrefix(s, t) == Len(s) <= Len(t) /\ \A i \in 1..Len(s) : s[i] = t[i]

\* number of batches a run without error processes
ExpectedSteps == lenDataloader * Max(args.epoch, 0)

\* the backend the documentation of --plugin names for each value
ExpectedBackend ==
  [f \in Choices \cup {"omitted"} |->
     CASE f = "torch_ddp" -> "TorchDDPPlugin"
       [] f = "gemini" -> "GeminiPlugin"
       [] f = "low_level_zero" -> "LowLevelZeroPlugin"
       [] f = "torch_fsdp" -> "TorchFSDPPlugin"
       [] f = "omitted" -> "TorchDDPPlugin"]

\* C1: the backend is the one named by --plugin (torch_ddp when the flag is
\* omitted); a value outside the four choices is rejected by main and never
\* reaches train; the plugin is never None and the data loader is always
\* built by the plugin.
C1_BackendSelection ==
  /\ argv.plugin \notin Choices \cup {"omitted"} => pc \in {"main", "rejected"}
  /\ pc = "rejected" => argv.plugin \notin Choices \cup {"omitted"}
  /\ plugin # "unset" =>
       /\ plugin = ExpectedBackend[argv.plugin]
       /\ plugin # "None"
       /\ dataloaderBy = "plugin"

C1_Witness ==
  /\ argv.plugin = "gemini"
  /\ plugin = "GeminiPlugin"
  /\ dataloaderBy = "plugin"
  /\ optSteps > 0

C2_Order ==
  /\ IsPrefix(batchLog, StepOrder)
  /\ pc \in {"backward", "opt_step", "zero_grad", "lr_step", "postfix"} =>
       /\ batchLog # <<>>
       /\ Len(batchLog) < Len(StepOrder)
       /\ pc = StepOrder[Len(batchLog) + 1]
  /\ (pc = "fetch" /\ batchI > 0) => batchLog = StepOrder

C2_NextBatch ==
  /\ batchLog' # batchLog =>
       \/ Len(batchLog) < Len(StepOrder) /\ batchLog' = Append(batchLog, StepOrder[Len(batchLog) + 1])
       \/ batchLog = StepOrder /\ batchLog' = <<"forward">>
  /\ optSteps' # optSteps => batchLog = <<"forward", "backward">>

\* C2: for every batch the steps forward, backward, optimizer.step,
\* zero_grad, lr_sched.step, progress report run once each in this order; a
\* batch starts only after the report of the batch before it, and
\* optimizer.step runs only right after the backward of the same batch.
C2_StepOrder == [](C2_Order) /\ [][C2_NextBatch]_vars

C2_Witness ==
  /\ pc = "opt_step"
  /\ batchI = 1
  /\ batchLog = <<"forward", "backward">>
  /\ reports = 1

C3_Counts ==
  /\ pc = "done" =>
       /\ optSteps = ExpectedSteps
       /\ lrSteps = ExpectedSteps
       /\ reports = ExpectedSteps
       /\ args.epoch >= 0 => optSteps = total_steps
  /\ lrSteps <= Max(total_steps, 0)
  /\ pc \in InEpoch => lrSteps <= epoch * lenDataloader + batchI + 1

\* C3 (as stated): when train finishes the optimizer and the schedule have
\* been stepped len(dataloader) * args.epoch = total_steps times, and the
\* schedule is never stepped more than total_steps times.
C3_Original ==
  /\ pc = "done" =>
       /\ optSteps = lenDataloader * args.epoch
       /\ lrSteps = lenDataloader * args.epoch
       /\ lenDataloader * args.epoch = total_steps
  /\ lrSteps <= total_steps

\* C3 (amended): when train finishes the optimizer and the schedule have been
\* stepped len(dataloader) * max(args.epoch, 0) times, which is total_steps
\* when args.epoch is not negative; the schedule is never stepped more than
\* max(total_steps, 0) times; every run ends.
C3_StepCount == [](C3_Counts) /\ <>(pc \in Terminal)

C3_Witness ==
  /\ pc = "done"
  /\ args.epoch = 2
  /\ lenDataloader = 2
  /\ optSteps = 4
  /\ total_steps = 4

\* C4: once LoRAWapper has wrapped the model no step changes a base weight;
\* a change of the weights is made by optimizer.step and is a change of the
\* adapter parameters, although the optimizer holds every parameter.
C4_BaseFrozen ==
  [][wrapped =>
       /\ weights'["base"] = weights["base"]
       /\ weights' # weights => (pc = "opt_step" /\ weights'["lora"] # weights["lora"])]_vars

C4_Witness ==
  /\ wrapped
  /\ "base" \in OptimizerParams
  /\ weights["lora"] >= 2
  /\ weights["base"] = 0

\* C5: the MemoryTracker scope is entered once, after the setup and before
\* the first batch, and exited once, after the last epoch and the save;
\* every training step and the save run inside it; it is exited also when
\* an epoch or the save raises.
C5_Scope ==
  /\ entered <= 1
  /\ exited <= entered
  /\ inScope <=> (entered = 1 /\ exited = 0)
  /\ stepsOutScope = 0
  /\ entered = 0 => stepsInScope = 0 /\ saves = 0
  /\ entered = 1 => wrapped /\ plugin # "unset"
  /\ pc \in InEpoch \cup {"epoch_loop", "save", "exit"} => inScope
  /\ exited = 1 => pc \in {"done", "aborted"}
  /\ pc = "done" => entered = 1 /\ exited = 1 /\ epoch >= args.epoch
  /\ pc = "aborted" => ~inScope /\ exited = entered

C5_Witness ==
  /\ pc = "aborted"
  /\ entered = 1
  /\ exited = 1
  /\ stepsInScope > 0

\* C6: after every batch the loss of that batch is reported; the progress
\* bar is disabled exactly on the ranks that are not the master; the number
\* of training steps does not depend on the rank.
C6_Progress ==
  /\ pbarDisabled # <<>> => pbarDisabled[1] = (rank # 0)
  /\ pc \in InEpoch => pbarDisabled # <<>>
  /\ pc = "fetch" => reports = epoch * lenDataloader + batchI
  /\ (pc = "fetch" /\ batchI > 0) => reported = loss /\ reported[1] = epoch /\ reported[2] = batchI - 1
  /\ reports <= optSteps
  /\ pc = "done" => optSteps = ExpectedSteps

C6_Witness ==
  /\ rank = 1
  /\ pbarDisabled = <<TRUE>>
  /\ pc = "fetch"
  /\ batchI = 2
  /\ reported[2] = 1

\* C7: when the checkpoint path exists at the assertion in main the run
\* stops there: no setup, no scope, no training step, no save, and the path
\* stays as it was; train is reached only when the path did not exist.
C7_CkptGuard ==
  /\ pc \notin {"main", "rejected", "assert_failed"} => ~existedAtCheck
  /\ existedAtCheck => pc = "assert_failed"
  /\ pc = "assert_failed" =>
       /\ existedAtCheck
       /\ ckptExists
       /\ plugin = "unset"
       /\ ~wrapped
       /\ entered = 0
       /\ stepsInScope + stepsOutScope = 0
       /\ saves = 0

C7_Witness ==
  /\ pc = "assert_failed"
  /\ ckptExists

\* C8: save_pretrained is called at most once, only on the master rank, and
\* only when every batch of every epoch has been processed.
C8_SaveOnce ==
  /\ saves <= 1
  /\ rank # 0 => saves = 0
  /\ saves = 1 =>
       /\ rank = 0
       /\ pc \in {"exit", "done"}
       /\ epoch >= args.epoch
       /\ optSteps = ExpectedSteps
  /\ (pc = "done" /\ rank = 0) => saves = 1

C8_Witness ==
  /\ saves = 1
  /\ rank = 0
  /\ optSteps = 4

\* C9: at every call of booster.backward all gradients are cleared, so every
\* optimizer.step applies the gradient of exactly one batch.
C9_NoAccumulation ==
  /\ pc \in {"fetch", "forward", "backward"} => \A p \in Params : grad[p] = 0
  /\ pc = "opt_step" => grad["lora"] = 1
  /\ optSteps > 0 => applied = 1

C9_Witness ==
  /\ pc = "zero_grad"
  /\ optSteps = 3
  /\ applied = 1
====
